---- MODULE Spec2Model ----
(***************************************************************************)
(* Model of advanced-vector/vector.h: RawMemory<T> (an owner of raw,       *)
(* uninitialized storage) and Vector<T> (element lifetime and a logical    *)
(* size layered on one RawMemory).                                         *)
(*                                                                         *)
(* The heap is a small pool of buffers; every slot of a buffer is either   *)
(* raw memory or a live element with a value.  Each public operation of    *)
(* Vector is one atomic action.  An operation takes a fault index f: the   *)
(* f-th step of the call that is able to throw (operator new, a            *)
(* constructor or an assignment of T) throws; f = 0 means nothing throws.  *)
(* Lifetime errors of a call (a destructor run on raw memory, a            *)
(* constructor run over a live element, a live element in released         *)
(* storage, an access to raw memory) are recorded in last.ev.              *)
(***************************************************************************)
EXTENDS Integers, Sequences, FiniteSets, TLC

VARIABLES heap, vec, traits, last

vars == <<heap, vec, traits, last>>

(* ------------------------------ bounds -------------------------------- *)
MaxCap == 3        \* largest capacity Reserve is asked for
MaxNew == 2        \* largest size Vector(n) and Resize are asked for
MaxSize == 3       \* largest number of elements a vector is grown to
PairSize == 2      \* MaxSize, where two vectors are modelled
MaxBuf == 3        \* buffers the heap can hold at once

Vecs == {"a", "b"}

(* The values callers supply.  Vector never inspects a value of T, so two  *)
(* distinct values tell any two elements apart.                            *)
Values == {1, 2}

(* element values that are not supplied by a caller *)
ValueInit == 0          \* T()
MovedFrom == -1         \* valid but unspecified state of a moved-from T
Indeterminate == -2     \* what raw memory holds

nullptr == 0

(* The element types T the model instantiates Vector with: what            *)
(* std::is_copy_constructible_v<T> and std::is_nothrow_move_constructible_v<T> say *)
ElementTypes ==
    {[copyable |-> TRUE, nothrow_move |-> FALSE],
     [copyable |-> TRUE, nothrow_move |-> TRUE],
     [copyable |-> FALSE, nothrow_move |-> FALSE]}

(* ------------------------------ storage ------------------------------- *)
Raw == [live |-> FALSE, val |-> Indeterminate]
Elem(x) == [live |-> TRUE, val |-> x]
FreeBuf == [alloc |-> FALSE, slots |-> <<>>]

EmptyVector == [exists |-> TRUE, buffer_ |-> nullptr, capacity_ |-> 0, size_ |-> 0]
NoVector == [exists |-> FALSE, buffer_ |-> nullptr, capacity_ |-> 0, size_ |-> 0]

(* An argument of an Emplace-style call: a value the caller holds, or a     *)
(* reference to the element at slot i of buffer b (an element of the       *)
(* vector itself), which is read when the constructor of T runs.           *)
Value(x) == [ref |-> FALSE, val |-> x, b |-> nullptr, i |-> 0]
ElemRef(b, i) == [ref |-> TRUE, val |-> Indeterminate, b |-> b, i |-> i]
NoArg == Value(Indeterminate)

(* an iterator: a position i in buffer b; NoIt where a call returns none *)
It(b, i) == [b |-> b, i |-> i]
NoIt == It(nullptr, 0)

(* The state of one call: the heap and the vectors as the call has left    *)
(* them so far, the lifetime errors seen, the fault index, the steps left  *)
(* before the fault, the steps that were able to throw and did not,        *)
(* whether an exception is propagating and the kind of step that threw it, *)
(* the branch of the operation the call took, the last returned pointer,   *)
(* the argument of the call and the iterator the call returns.             *)
Start(f) ==
    [heap |-> heap, vec |-> vec, ev |-> {}, f |-> f, fault |-> f, steps |-> 0,
     threw |-> FALSE, site |-> "none", path |-> "none", ret |-> nullptr,
     arg |-> NoArg, it |-> NoIt]

MayThrow(M) == M.fault = 1
Throw(M, site) == [M EXCEPT !.threw = TRUE, !.fault = 0, !.site = site]
Pass(M) == [M EXCEPT !.fault = IF @ > 0 THEN @ - 1 ELSE 0, !.steps = @ + 1]
Note(M, e) == [M EXCEPT !.ev = @ \cup {e}]
Take(M, path) == [M EXCEPT !.path = path]
Given(M, arg) == [M EXCEPT !.arg = arg]
Returning(M, b, i) == [M EXCEPT !.it = It(b, i)]

SlotAt(M, b, i) == M.heap[b].slots[i + 1]
SetSlot(M, b, i, s) == [M EXCEPT !.heap[b].slots[i + 1] = s]

(* placement new at slot i of buffer b, the constructor having returned *)
ConstructAt(M, b, i, x) ==
    SetSlot(IF SlotAt(M, b, i).live THEN Note(M, "construct_over_live") ELSE M,
            b, i, Elem(x))

(* ~T() at slot i of buffer b *)
DestroyAt(M, b, i) ==
    IF SlotAt(M, b, i).live THEN SetSlot(M, b, i, Raw) ELSE Note(M, "destroy_dead")

(* the value read from slot i of buffer b; raw memory reads as Indeterminate *)
ReadAt(M, b, i) ==
    IF SlotAt(M, b, i).live THEN SlotAt(M, b, i).val ELSE Indeterminate

NoteRead(M, b, i) == IF SlotAt(M, b, i).live THEN M ELSE Note(M, "access_dead")

(* the value the constructor of T reads from the argument at this point of *)
(* the call                                                                *)
ArgValue(M, arg) == IF arg.ref THEN ReadAt(M, arg.b, arg.i) ELSE arg.val
NoteArg(M, arg) == IF arg.ref THEN NoteRead(M, arg.b, arg.i) ELSE M

(* T::operator= at slot i of buffer b, the assignment having returned *)
AssignAt(M, b, i, x) ==
    IF SlotAt(M, b, i).live THEN SetSlot(M, b, i, Elem(x)) ELSE Note(M, "access_dead")

(* the state a move leaves its source in *)
MoveOut(M, b, i) ==
    IF SlotAt(M, b, i).live THEN SetSlot(M, b, i, Elem(MovedFrom)) ELSE M

(* ------------------------------ RawMemory ----------------------------- *)
FreeIds(M) == {b \in 1..MaxBuf : ~M.heap[b].alloc}

(* RawMemory::Allocate: null for n = 0, else operator new, which may throw *)
Allocate(M, n) ==
    IF n = 0 THEN [M EXCEPT !.ret = nullptr]
    ELSE IF MayThrow(M) THEN Throw(M, "alloc")
    ELSE LET b == CHOOSE x \in FreeIds(M) : \A y \in FreeIds(M) : x <= y
         IN [Pass(M) EXCEPT !.heap[b] = [alloc |-> TRUE, slots |-> [i \in 1..n |-> Raw]],
                            !.ret = b]

(* ~RawMemory: releases the buffer and never touches the elements *)
Deallocate(M, b) ==
    IF b = nullptr THEN M
    ELSE LET M1 == IF \E i \in 1..Len(M.heap[b].slots) : M.heap[b].slots[i].live
                   THEN Note(M, "leak") ELSE M
         IN [M1 EXCEPT !.heap[b] = FreeBuf]

(* --------------------------- <memory> algorithms ---------------------- *)
RECURSIVE destroy_n(_, _, _, _)
destroy_n(M, b, i, n) ==
    IF n = 0 THEN M ELSE destroy_n(DestroyAt(M, b, i), b, i + 1, n - 1)

(* uninitialized_copy_n as it would be without its cleanup: a throwing     *)
(* constructor leaves the elements built so far alive                      *)
RECURSIVE uninitialized_copy_n_NoCleanup(_, _, _, _, _, _, _)
uninitialized_copy_n_NoCleanup(M, fb, fi, n, tb, ti, k) ==
    IF k = n THEN M
    ELSE IF MayThrow(M) THEN Throw(M, "copy_ctor")
    ELSE uninitialized_copy_n_NoCleanup(
             ConstructAt(NoteRead(Pass(M), fb, fi + k), tb, ti + k, ReadAt(M, fb, fi + k)),
             fb, fi, n, tb, ti, k + 1)

(* k elements are already built; a throwing constructor makes the          *)
(* algorithm destroy what it built and rethrow                             *)
RECURSIVE uninitialized_copy_n(_, _, _, _, _, _, _)
uninitialized_copy_n(M, fb, fi, n, tb, ti, k) ==
    IF k = n THEN M
    ELSE IF MayThrow(M) THEN destroy_n(Throw(M, "copy_ctor"), tb, ti, k)
    ELSE uninitialized_copy_n(
             ConstructAt(NoteRead(Pass(M), fb, fi + k), tb, ti + k, ReadAt(M, fb, fi + k)),
             fb, fi, n, tb, ti, k + 1)

RECURSIVE uninitialized_move_n(_, _, _, _, _, _, _)
uninitialized_move_n(M, fb, fi, n, tb, ti, k) ==
    IF k = n THEN M
    ELSE IF ~traits.nothrow_move /\ MayThrow(M)
    THEN destroy_n(Throw(M, "move_ctor"), tb, ti, k)
    ELSE uninitialized_move_n(
             MoveOut(ConstructAt(NoteRead(IF traits.nothrow_move THEN M ELSE Pass(M),
                                          fb, fi + k),
                                 tb, ti + k, ReadAt(M, fb, fi + k)),
                     fb, fi + k),
             fb, fi, n, tb, ti, k + 1)

RECURSIVE uninitialized_value_construct_n(_, _, _, _, _)
uninitialized_value_construct_n(M, b, i, n, k) ==
    IF k = n THEN M
    ELSE IF MayThrow(M) THEN destroy_n(Throw(M, "value_ctor"), b, i, k)
    ELSE uninitialized_value_construct_n(ConstructAt(Pass(M), b, i + k, ValueInit),
                                         b, i, n, k + 1)

(* one step of the call, of kind site, that may throw only when can is TRUE *)
Step(M, can, site) ==
    IF can THEN (IF MayThrow(M) THEN Throw(M, site) ELSE Pass(M)) ELSE M

(* move-assignment of slot from to slot to of buffer b, having returned *)
MoveAssign(M, b, from, to) ==
    MoveOut(AssignAt(NoteRead(M, b, from), b, to, ReadAt(M, b, from)), b, from)

(* std::move_backward(b + first, b + lst, b + d_last) *)
RECURSIVE move_backward(_, _, _, _, _)
move_backward(M, b, first, lst, d_last) ==
    IF first = lst THEN M
    ELSE IF MayThrow(M) THEN Throw(M, "move_assign")
    ELSE move_backward(MoveAssign(Pass(M), b, lst - 1, d_last - 1),
                       b, first, lst - 1, d_last - 1)

(* std::move(b + first, b + lst, b + d_first) *)
RECURSIVE std_move(_, _, _, _, _)
std_move(M, b, first, lst, d_first) ==
    IF first = lst THEN M
    ELSE IF MayThrow(M) THEN Throw(M, "move_assign")
    ELSE std_move(MoveAssign(Pass(M), b, first, d_first), b, first + 1, lst, d_first + 1)

(* std::copy(fb + first, fb + lst, tb + d_first) *)
RECURSIVE std_copy(_, _, _, _, _, _)
std_copy(M, fb, first, lst, tb, d_first) ==
    IF first = lst THEN M
    ELSE IF MayThrow(M) THEN Throw(M, "copy_assign")
    ELSE std_copy(AssignAt(NoteRead(Pass(M), fb, first), tb, d_first, ReadAt(M, fb, first)),
                  fb, first + 1, lst, tb, d_first + 1)

(* ------------------------------- Vector ------------------------------- *)
Size(M, v) == M.vec[v].size_
Capacity(M, v) == M.vec[v].capacity_
Data(M, v) == M.vec[v].buffer_

(* RawMemory::Swap of the vector's data_ with a local RawMemory (b, c) *)
SwapData(M, v, b, c) == [M EXCEPT !.vec[v].buffer_ = b, !.vec[v].capacity_ = c]

(* CopyOrMoveInNewData as it would be if it always moved *)
CopyOrMoveInNewData_Move(M, fb, fi, n, tb, ti) ==
    uninitialized_move_n(M, fb, fi, n, tb, ti, 0)

CopyOrMoveInNewData(M, fb, fi, n, tb, ti) ==
    IF traits.nothrow_move \/ ~traits.copyable
    THEN uninitialized_move_n(M, fb, fi, n, tb, ti, 0)
    ELSE uninitialized_copy_n(M, fb, fi, n, tb, ti, 0)

(* Reserve as it would be without std::destroy_n on the old storage *)
Reserve_NoDestroy(M, v, new_capacity) ==
    IF new_capacity <= Capacity(M, v) THEN Take(M, "enough")
    ELSE LET M1 == Allocate(Take(M, "grow"), new_capacity)
             new_data == M1.ret
             old_data == Data(M, v)
             M2 == CopyOrMoveInNewData(M1, old_data, 0, Size(M, v), new_data, 0)
         IN IF M1.threw THEN M1
            ELSE IF M2.threw THEN Deallocate(M2, new_data)
            ELSE Deallocate(SwapData(M2, v, new_data, new_capacity), old_data)

Reserve(M, v, new_capacity) ==
    IF new_capacity <= Capacity(M, v) THEN Take(M, "enough")
    ELSE LET M1 == Allocate(Take(M, "grow"), new_capacity)
             new_data == M1.ret
             old_data == Data(M, v)
             M2 == CopyOrMoveInNewData(M1, old_data, 0, Size(M, v), new_data, 0)
         IN IF M1.threw THEN M1
            ELSE IF M2.threw THEN Deallocate(M2, new_data)
            ELSE Deallocate(SwapData(destroy_n(M2, old_data, 0, Size(M, v)),
                                     v, new_data, new_capacity),
                            old_data)

PopBack(M, v) ==
    IF Size(M, v) = 0 THEN M
    ELSE DestroyAt([M EXCEPT !.vec[v].size_ = @ - 1], Data(M, v), Size(M, v) - 1)

SetSize(M, v, n) == [M EXCEPT !.vec[v].size_ = n]

(* Vector(size_t size); the vector exists only if the constructor returns *)
SizeCtor(M, v, size) ==
    LET M1 == Allocate(M, size)
        M2 == uninitialized_value_construct_n(M1, M1.ret, 0, size, 0)
    IN IF M1.threw THEN M1
       ELSE IF M2.threw THEN Deallocate(M2, M1.ret)
       ELSE [M2 EXCEPT !.vec[v] = [exists |-> TRUE, buffer_ |-> M1.ret,
                                   capacity_ |-> size, size_ |-> size]]

(* Vector(const Vector& other) *)
CopyCtor(M, v, other) ==
    LET M1 == Allocate(M, Size(M, other))
        M2 == uninitialized_copy_n(M1, Data(M, other), 0, Size(M, other), M1.ret, 0, 0)
    IN IF M1.threw THEN M1
       ELSE IF M2.threw THEN Deallocate(M2, M1.ret)
       ELSE [M2 EXCEPT !.vec[v] = [exists |-> TRUE, buffer_ |-> M1.ret,
                                   capacity_ |-> Size(M, other), size_ |-> Size(M, other)]]

(* Vector(Vector&&) as it would be without other.size_ = 0 *)
MoveCtor_KeepsSourceSize(M, v, other) ==
    [M EXCEPT !.vec[v] = [exists |-> TRUE, buffer_ |-> Data(M, other),
                          capacity_ |-> Capacity(M, other), size_ |-> Size(M, other)],
              !.vec[other] = [EmptyVector EXCEPT !.size_ = Size(M, other)]]

(* Vector(Vector&& other) noexcept, with RawMemory(RawMemory&&) *)
MoveCtor(M, v, other) ==
    [M EXCEPT !.vec[v] = [exists |-> TRUE, buffer_ |-> Data(M, other),
                          capacity_ |-> Capacity(M, other), size_ |-> Size(M, other)],
              !.vec[other] = EmptyVector]

CopyWithOldCopacity(M, v, rhs) ==
    LET copy_size == IF Size(M, rhs) < Size(M, v) THEN Size(M, rhs) ELSE Size(M, v)
        M1 == IF Size(M, rhs) < Size(M, v)
              THEN destroy_n(M, Data(M, v), Size(M, rhs), Size(M, v) - Size(M, rhs))
              ELSE uninitialized_copy_n(M, Data(M, rhs), Size(M, v),
                                        Size(M, rhs) - Size(M, v), Data(M, v), 0, 0)
        M2 == std_copy(M1, Data(M, rhs), 0, copy_size, Data(M, v), 0)
    IN IF M1.threw THEN M1
       ELSE IF M2.threw THEN M2
       ELSE SetSize(M2, v, Size(M, rhs))

(* Vector::Swap and the body of operator=(Vector&&) *)
Swap(M, v, other) ==
    [M EXCEPT !.vec[v] = M.vec[other], !.vec[other] = M.vec[v]]

(* operator=(const Vector&) as it would be if, instead of copy-and-swap, it *)
(* emptied itself, grew and copied into its own storage                    *)
CopyAssign_ClearFirst(M, v, rhs) ==
    IF v = rhs THEN Take(M, "self")
    ELSE IF Size(M, rhs) > Capacity(M, v)
    THEN LET M0 == SetSize(destroy_n(Take(M, "copy_and_swap"), Data(M, v), 0, Size(M, v)),
                           v, 0)
             M1 == Reserve(M0, v, Size(M, rhs))
             M2 == uninitialized_copy_n(Take(M1, "copy_and_swap"), Data(M, rhs), 0,
                                        Size(M, rhs), Data(M1, v), 0, 0)
         IN IF M1.threw THEN Take(M1, "copy_and_swap")
            ELSE IF M2.threw THEN M2
            ELSE SetSize(M2, v, Size(M, rhs))
    ELSE CopyWithOldCopacity(Take(M, "in_place"), v, rhs)

(* operator=(const&) as it would be if it always made a copy and swapped *)
CopyAssign_AlwaysSwap(M, v, rhs) ==
    IF v = rhs THEN Take(M, "self")
    ELSE LET M1 == Allocate(Take(M, "copy_and_swap"), Size(M, rhs))
             M2 == uninitialized_copy_n(M1, Data(M, rhs), 0, Size(M, rhs), M1.ret, 0, 0)
             M3 == [M2 EXCEPT !.vec[v].buffer_ = M1.ret,
                              !.vec[v].capacity_ = Size(M, rhs),
                              !.vec[v].size_ = Size(M, rhs)]
             M4 == IF Size(M, v) # 0 THEN destroy_n(M3, Data(M, v), 0, Size(M, v)) ELSE M3
         IN IF M1.threw THEN M1
            ELSE IF M2.threw THEN Deallocate(M2, M1.ret)
            ELSE Deallocate(M4, Data(M, v))

(* operator=(const Vector& rhs); the local Vector copy is destroyed on return *)
CopyAssign(M, v, rhs) ==
    IF v = rhs THEN Take(M, "self")
    ELSE IF Size(M, rhs) > Capacity(M, v)
    THEN LET M1 == Allocate(Take(M, "copy_and_swap"), Size(M, rhs))
             M2 == uninitialized_copy_n(M1, Data(M, rhs), 0, Size(M, rhs), M1.ret, 0, 0)
             M3 == [M2 EXCEPT !.vec[v].buffer_ = M1.ret,
                              !.vec[v].capacity_ = Size(M, rhs),
                              !.vec[v].size_ = Size(M, rhs)]
             M4 == IF Size(M, v) # 0 THEN destroy_n(M3, Data(M, v), 0, Size(M, v)) ELSE M3
         IN IF M1.threw THEN M1
            ELSE IF M2.threw THEN Deallocate(M2, M1.ret)
            ELSE Deallocate(M4, Data(M, v))
    ELSE CopyWithOldCopacity(Take(M, "in_place"), v, rhs)

MoveAssign_(M, v, rhs) == IF v = rhs THEN M ELSE Swap(M, v, rhs)

(* Resize as it would be if shrinking only lowered size_ *)
Resize_NoDestroy(M, v, new_size) ==
    IF new_size = Size(M, v) THEN Take(M, "same")
    ELSE IF new_size < Size(M, v) THEN SetSize(Take(M, "shrink"), v, new_size)
    ELSE LET M1 == Reserve(M, v, new_size)
             M2 == uninitialized_value_construct_n(M1, Data(M1, v), Size(M, v),
                                                   new_size - Size(M, v), 0)
         IN IF M1.threw THEN M1
            ELSE IF M2.threw THEN M2
            ELSE SetSize(M2, v, new_size)

Resize(M, v, new_size) ==
    IF new_size = Size(M, v) THEN Take(M, "same")
    ELSE IF new_size < Size(M, v)
    THEN SetSize(destroy_n(Take(M, "shrink"), Data(M, v), new_size, Size(M, v) - new_size),
                 v, new_size)
    ELSE LET M1 == Reserve(M, v, new_size)
             M2 == uninitialized_value_construct_n(M1, Data(M1, v), Size(M, v),
                                                   new_size - Size(M, v), 0)
         IN IF M1.threw THEN M1
            ELSE IF M2.threw THEN M2
            ELSE SetSize(M2, v, new_size)

(* whether T's constructor from the given kind of argument may throw *)
CtorMayThrow(how) == ~(how = "move" /\ traits.nothrow_move)

(* CopyData as it would be if its handler destroyed the new element only *)
CopyData_NewElementOnly(M, fb, fi, size, tb, ti, new_data, new_pos) ==
    LET M1 == CopyOrMoveInNewData(M, fb, fi, size, tb, ti)
    IN IF M1.threw THEN DestroyAt(M1, new_data, new_pos) ELSE M1

CopyData(M, fb, fi, size, tb, ti, new_data, new_pos) ==
    LET M1 == CopyOrMoveInNewData(M, fb, fi, size, tb, ti)
    IN IF M1.threw
       THEN destroy_n(DestroyAt(M1, new_data, new_pos), new_data, 0, fi)
       ELSE M1

(* EmplaceGrow as it would be if the capacity grew by one element          *)
EmplaceGrow_PlusOne(M, v, p, arg, how) ==
    LET size == Size(M, v)
        data == Data(M, v)
        new_cap == IF size = 0 THEN 1 ELSE Capacity(M, v) + 1
        M1 == Allocate(M, new_cap)
        new_data == M1.ret
        M2 == Step(M1, CtorMayThrow(how), "ctor")
        new_pos == IF size = 0 THEN 0 ELSE p
        M3 == ConstructAt(NoteArg(M2, arg), new_data, new_pos, ArgValue(M2, arg))
        M4 == CopyData(M3, data, 0, p, new_data, 0, new_data, new_pos)
        M5 == CopyData(M4, data, p, size - p, new_data, new_pos + 1, new_data, new_pos)
        M6 == IF size = 0 THEN M3 ELSE destroy_n(M5, data, 0, size)
    IN IF M1.threw THEN M1
       ELSE IF M2.threw THEN Deallocate(M2, new_data)
       ELSE IF size # 0 /\ M4.threw THEN Deallocate(M4, new_data)
       ELSE IF size # 0 /\ M5.threw THEN Deallocate(M5, new_data)
       ELSE Returning(Deallocate(SetSize(SwapData(M6, v, new_data, new_cap), v, size + 1),
                                 data),
                      new_data, new_pos)

(* Emplace with size_ == Capacity(): the new element is built in new       *)
(* storage of twice the capacity, then the old elements are relocated      *)
EmplaceGrow(M, v, p, arg, how) ==
    LET size == Size(M, v)
        data == Data(M, v)
        new_cap == IF size = 0 THEN 1 ELSE 2 * Capacity(M, v)
        M1 == Allocate(M, new_cap)
        new_data == M1.ret
        M2 == Step(M1, CtorMayThrow(how), "ctor")
        new_pos == IF size = 0 THEN 0 ELSE p
        M3 == ConstructAt(NoteArg(M2, arg), new_data, new_pos, ArgValue(M2, arg))
        M4 == CopyData(M3, data, 0, p, new_data, 0, new_data, new_pos)
        M5 == CopyData(M4, data, p, size - p, new_data, new_pos + 1, new_data, new_pos)
        M6 == IF size = 0 THEN M3 ELSE destroy_n(M5, data, 0, size)
    IN IF M1.threw THEN M1
       ELSE IF M2.threw THEN Deallocate(M2, new_data)
       ELSE IF size # 0 /\ M4.threw THEN Deallocate(M4, new_data)
       ELSE IF size # 0 /\ M5.threw THEN Deallocate(M5, new_data)
       ELSE Returning(Deallocate(SetSize(SwapData(M6, v, new_data, new_cap), v, size + 1),
                                 data),
                      new_data, new_pos)

(* EmplaceAtEnd as it would be if it counted the element before building it *)
EmplaceAtEnd_SizeFirst(M, v, arg, how) ==
    LET M1 == Step(SetSize(M, v, Size(M, v) + 1), CtorMayThrow(how), "ctor")
    IN IF M1.threw THEN M1
       ELSE Returning(ConstructAt(NoteArg(M1, arg), Data(M, v), Size(M, v),
                                  ArgValue(M1, arg)),
                      Data(M, v), Size(M, v))

(* Emplace at end() with spare capacity *)
EmplaceAtEnd(M, v, arg, how) ==
    LET M1 == Step(M, CtorMayThrow(how), "ctor")
    IN IF M1.threw THEN M1
       ELSE Returning(SetSize(ConstructAt(NoteArg(M1, arg), Data(M, v), Size(M, v),
                                          ArgValue(M1, arg)),
                              v, Size(M, v) + 1),
                      Data(M, v), Size(M, v))

(* EmplaceShift as it would be without the temporary: the argument is read *)
(* when it is assigned to the slot at pos, after the shift                 *)
EmplaceShift_NoTemporary(M, v, p, arg, how) ==
    LET size == Size(M, v)
        data == Data(M, v)
        M2 == Step(M, ~traits.nothrow_move, "move_ctor")
        M3 == MoveOut(ConstructAt(NoteRead(M2, data, size - 1), data, size,
                                  ReadAt(M2, data, size - 1)),
                      data, size - 1)
        M4 == move_backward(M3, data, p, size - 1, size)
        M5 == Step(M4, TRUE, "move_assign")
        M6 == AssignAt(NoteArg(M5, arg), data, p, ArgValue(M5, arg))
    IN IF M2.threw THEN M2
       ELSE IF M4.threw THEN M4
       ELSE IF M5.threw THEN M5
       ELSE Returning(SetSize(M6, v, size + 1), data, p)

(* Emplace before end() with spare capacity: a temporary, the last element *)
(* moved into the slot at end(), the shift, the temporary moved into pos   *)
EmplaceShift(M, v, p, arg, how) ==
    LET size == Size(M, v)
        data == Data(M, v)
        M1 == NoteArg(Step(M, CtorMayThrow(how), "ctor"), arg)
        tmp == ArgValue(M, arg)
        M2 == Step(M1, ~traits.nothrow_move, "move_ctor")
        M3 == MoveOut(ConstructAt(NoteRead(M2, data, size - 1), data, size,
                                  ReadAt(M2, data, size - 1)),
                      data, size - 1)
        M4 == move_backward(M3, data, p, size - 1, size)
        M5 == Step(M4, TRUE, "move_assign")
        M6 == AssignAt(M5, data, p, tmp)
    IN IF M1.threw THEN M1
       ELSE IF M2.threw THEN M2
       ELSE IF M4.threw THEN M4
       ELSE IF M5.threw THEN M5
       ELSE Returning(SetSize(M6, v, size + 1), data, p)

(* Emplace as it would be if, with spare capacity, it built the new        *)
(* element at end() whatever the position                                  *)
Emplace_Append(M, v, p, arg, how) ==
    IF Size(M, v) = Capacity(M, v) THEN EmplaceGrow(Take(M, "grow"), v, p, arg, how)
    ELSE IF p = Size(M, v) THEN EmplaceAtEnd(Take(M, "at_end"), v, arg, how)
    ELSE Returning(EmplaceAtEnd(Take(M, "shift"), v, arg, how), Data(M, v), p)

(* Emplace(begin() + p, values...): arg is what the new element is         *)
(* constructed from, how is the constructor of T that values... selects    *)
Emplace(M, v, p, arg, how) ==
    IF Size(M, v) = Capacity(M, v) THEN EmplaceGrow(Take(M, "grow"), v, p, arg, how)
    ELSE IF p = Size(M, v) THEN EmplaceAtEnd(Take(M, "at_end"), v, arg, how)
    ELSE EmplaceShift(Take(M, "shift"), v, p, arg, how)

(* Erase as it would be if it removed the last element without the shift *)
Erase_NoShift(M, v, p) == Returning(PopBack(M, v), Data(M, v), p)

Erase(M, v, p) ==
    LET M1 == std_move(M, Data(M, v), p + 1, Size(M, v), p)
    IN IF M1.threw THEN M1 ELSE Returning(PopBack(M1, v), Data(M, v), p)

(* ~Vector, then ~RawMemory of data_ *)
Destructor(M, v) ==
    LET M1 == IF Size(M, v) # 0 THEN destroy_n(M, Data(M, v), 0, Size(M, v)) ELSE M
    IN [Deallocate(M1, Data(M, v)) EXCEPT !.vec[v] = NoVector]

(* ------------------------------- actions ------------------------------ *)
(* A call that ran a destructor on raw memory or accessed raw memory as an *)
(* element had undefined behaviour; the model follows a run no further.    *)
Undefined(ev) == ev \cap {"destroy_dead", "access_dead"} # {}

NoCall ==
    [op |-> "none", v |-> "a", w |-> "a", n |-> 0, path |-> "none",
     threw |-> FALSE, site |-> "none", f |-> 0, ev |-> {}, arg |-> NoArg, it |-> NoIt]

(* The outcomes of a call Op: its run without a fault and, for each of its *)
(* steps that may throw, the run in which that step throws.                *)
Outcomes(Op(_)) == {Op(Start(f)) : f \in 0..Op(Start(0)).steps}

(* The call op on v, with the other vector w and the number n as           *)
(* arguments, ends in R; last holds the call, the branch it took and its   *)
(* outcome until the caller goes on.                                       *)
Finish(R, op, v, w, n) ==
    /\ heap' = R.heap
    /\ vec' = R.vec
    /\ last' = [op |-> op, v |-> v, w |-> w, n |-> n, path |-> R.path,
                threw |-> R.threw, site |-> R.site, f |-> R.f, ev |-> R.ev,
                arg |-> R.arg, it |-> R.it]
    /\ UNCHANGED traits

(* the caller has seen the outcome of the call (the return or the          *)
(* exception) and goes on to the next call                                 *)
Return ==
    /\ last # NoCall
    /\ ~Undefined(last.ev)
    /\ last' = NoCall
    /\ UNCHANGED <<heap, vec, traits>>

DoReserve(v, n) ==
    /\ last = NoCall /\ vec[v].exists
    /\ \E R \in Outcomes(LAMBDA M : Reserve(M, v, n)) : Finish(R, "Reserve", v, v, n)

DoPopBack(v) ==
    /\ last = NoCall /\ vec[v].exists
    /\ Finish(PopBack(Start(0), v), "PopBack", v, v, 0)

DoDestructor(v) ==
    /\ last = NoCall /\ vec[v].exists
    /\ Finish(Destructor(Start(0), v), "~Vector", v, v, 0)

DoDefaultCtor(v) ==
    /\ last = NoCall /\ ~vec[v].exists
    /\ Finish([Start(0) EXCEPT !.vec[v] = EmptyVector], "Vector()", v, v, 0)

DoSizeCtor(v, n) ==
    /\ last = NoCall /\ ~vec[v].exists
    /\ \E R \in Outcomes(LAMBDA M : SizeCtor(M, v, n)) : Finish(R, "Vector(n)", v, v, n)

DoCopyCtor(v, w) ==
    /\ last = NoCall /\ ~vec[v].exists /\ vec[w].exists /\ traits.copyable
    /\ \E R \in Outcomes(LAMBDA M : CopyCtor(M, v, w)) :
           Finish(R, "Vector(const&)", v, w, 0)

DoMoveCtor(v, w) ==
    /\ last = NoCall /\ ~vec[v].exists /\ vec[w].exists
    /\ Finish(MoveCtor(Start(0), v, w), "Vector(&&)", v, w, 0)

DoCopyAssign(v, w) ==
    /\ last = NoCall /\ vec[v].exists /\ vec[w].exists /\ traits.copyable
    /\ \E R \in Outcomes(LAMBDA M : CopyAssign(M, v, w)) :
           Finish(R, "operator=(const&)", v, w, 0)

DoMoveAssign(v, w) ==
    /\ last = NoCall /\ vec[v].exists /\ vec[w].exists
    /\ Finish(MoveAssign_(Start(0), v, w), "operator=(&&)", v, w, 0)

DoSwap(v, w) ==
    /\ last = NoCall /\ vec[v].exists /\ vec[w].exists
    /\ Finish(Swap(Start(0), v, w), "Swap", v, w, 0)

DoResize(v, n) ==
    /\ last = NoCall /\ vec[v].exists
    /\ \E R \in Outcomes(LAMBDA M : Resize(M, v, n)) : Finish(R, "Resize", v, v, n)

(* a const T& argument needs a copy constructor *)
CanEmplace(v, how) ==
    /\ last = NoCall /\ vec[v].exists
    /\ how = "copy" => traits.copyable

DoEmplaceBack(v, x) ==
    /\ CanEmplace(v, "args")
    /\ \E R \in Outcomes(LAMBDA M : Emplace(Given(M, Value(x)), v, vec[v].size_,
                                            Value(x), "args")) :
           Finish(R, "EmplaceBack", v, v, vec[v].size_)

DoPushBack(v, arg, how) ==
    /\ CanEmplace(v, how)
    /\ \E R \in Outcomes(LAMBDA M : Emplace(Given(M, arg), v, vec[v].size_, arg, how)) :
           Finish(R, "PushBack", v, v, vec[v].size_)

DoInsert(v, p, arg, how) ==
    /\ CanEmplace(v, how)
    /\ p <= vec[v].size_
    /\ \E R \in Outcomes(LAMBDA M : Emplace(Given(M, arg), v, p, arg, how)) :
           Finish(R, "Insert", v, v, p)

DoEmplace(v, p, x) ==
    /\ CanEmplace(v, "args")
    /\ p <= vec[v].size_
    /\ \E R \in Outcomes(LAMBDA M : Emplace(Given(M, Value(x)), v, p, Value(x), "args")) :
           Finish(R, "Emplace", v, v, p)

DoErase(v, p) ==
    /\ last = NoCall /\ vec[v].exists
    /\ p < vec[v].size_
    /\ \E R \in Outcomes(LAMBDA M : Erase(M, v, p)) : Finish(R, "Erase", v, v, p)

(* The model grows a vector v while it holds fewer than n elements. *)
MayGrow(v, n) == vec[v].size_ < n

(* the operations that fill and empty one vector v *)
Fill(v, n) ==
    \/ DoPopBack(v)
    \/ DoDestructor(v)
    \/ DoDefaultCtor(v)
    \/ \E x \in Values, how \in {"copy", "move"} :
           MayGrow(v, n) /\ DoPushBack(v, Value(x), how)

(* the other operations on one vector v *)
Edit(v, n) ==
    \/ \E k \in 0..MaxCap : DoReserve(v, k)
    \/ \E k \in 0..MaxNew : DoSizeCtor(v, k)
    \/ \E k \in 0..MaxNew : DoResize(v, k)
    \/ \E x \in Values : MayGrow(v, n) /\ DoEmplaceBack(v, x)
    \/ \E p \in 0..n, x \in Values, how \in {"copy", "move"} :
           MayGrow(v, n) /\ DoInsert(v, p, Value(x), how)
    \/ \E p \in 0..n, x \in Values : MayGrow(v, n) /\ DoEmplace(v, p, x)
    \/ \E p \in 0..n, i \in 0..(n - 1) :
           /\ MayGrow(v, n) /\ i < vec[v].size_
           /\ DoInsert(v, p, ElemRef(vec[v].buffer_, i), "copy")
    \/ \E i \in 0..(n - 1) :
           /\ MayGrow(v, n) /\ i < vec[v].size_
           /\ DoPushBack(v, ElemRef(vec[v].buffer_, i), "copy")
    \/ \E p \in 0..n : DoErase(v, p)

(* the operations that involve two vectors *)
Pair(v, w) ==
    \/ DoCopyCtor(v, w)
    \/ DoMoveCtor(v, w)
    \/ DoCopyAssign(v, w)
    \/ DoMoveAssign(v, w)
    \/ DoSwap(v, w)

(* one vector, a, and every operation on it *)
Init ==
    /\ heap = [b \in 1..MaxBuf |-> FreeBuf]
    /\ vec = [v \in Vecs |-> IF v = "a" THEN EmptyVector ELSE NoVector]
    /\ traits \in ElementTypes
    /\ last = NoCall

Next == Fill("a", MaxSize) \/ Edit("a", MaxSize) \/ Return

Spec == Init /\ [][Next]_vars

(* two vectors, a and b, within the smaller bound PairSize *)
InitPair ==
    /\ heap = [b \in 1..MaxBuf |-> FreeBuf]
    /\ vec = [v \in Vecs |-> EmptyVector]
    /\ traits \in ElementTypes
    /\ last = NoCall

NextPair ==
    \/ \E v \in Vecs : Fill(v, PairSize)
    \/ \E v \in Vecs, w \in Vecs : Pair(v, w)
    \/ Return

SpecPair == InitPair /\ [][NextPair]_vars
(* two vectors and their constructors: Vector(), Vector(n), Vector(const&) *)
(* and Vector(&&), with PushBack, PopBack and the destructor               *)
NextCtor ==
    \/ \E v \in Vecs : Fill(v, PairSize)
    \/ \E v \in Vecs, k \in 0..MaxNew : DoSizeCtor(v, k)
    \/ \E v \in Vecs, w \in Vecs : DoCopyCtor(v, w) \/ DoMoveCtor(v, w)
    \/ Return

SpecCtor == InitPair /\ [][NextCtor]_vars

(* the operation that makes a vector w a source of copies: its length is   *)
(* what matters, so it is filled with one value and only grows             *)
Source(w, n) ==
    MayGrow(w, n) /\ DoPushBack(w, Value(CHOOSE x \in Values : TRUE), "move")

(* one vector, a, with every operation on it, and a second vector, b, that *)
(* is filled and copy-assigned to a                                        *)
NextCap ==
    \/ Fill("a", PairSize)
    \/ Edit("a", PairSize)
    \/ Source("b", PairSize)
    \/ DoCopyAssign("a", "b")
    \/ Return

SpecCap == InitPair /\ [][NextCap]_vars

(* ------------------------------- claims ------------------------------- *)
(* the slots of v's storage, and the elements v holds as Size() counts them *)
Slots(v) == IF vec[v].buffer_ = nullptr THEN <<>> ELSE heap[vec[v].buffer_].slots
Elems(v) == SubSeq(Slots(v), 1, vec[v].size_)
LiveSlots(v) == {i \in 0..(Len(Slots(v)) - 1) : Slots(v)[i + 1].live}

(* the initialized-prefix invariant of one vector *)
PrefixInv(v) ==
    vec[v].exists =>
        /\ vec[v].size_ <= vec[v].capacity_
        /\ Len(Slots(v)) = vec[v].capacity_
        /\ LiveSlots(v) = 0..(vec[v].size_ - 1)

EmplaceOps == {"EmplaceBack", "PushBack", "Insert", "Emplace"}
LifetimeErrors == {"leak", "destroy_dead", "construct_over_live"}

(* the call just made left the vectors, the heap and every element as they *)
(* were, and made no lifetime error                                        *)
Untouched == vec' = vec /\ heap' = heap /\ last'.ev = {}

(* C1: a call that returns normally on vectors that satisfy the            *)
(* initialized-prefix invariant leaves every vector with 0 <= Size() <=    *)
(* Capacity(), the slots [0, Size()) live and the slots [Size(),           *)
(* Capacity()) raw.                                                        *)
C1_PrefixAfterNormalReturn ==
    [][((\A v \in Vecs : PrefixInv(v)) /\ last' # NoCall /\ ~last'.threw)
         => (\A v \in Vecs : PrefixInv(v))']_vars

(* C2: in no call, the destructor included and whatever threw before, is   *)
(* an element leaked (left live in released storage or built over), or a   *)
(* destructor run on a slot that holds no element.                         *)
C2_ExactDestruction == last.ev \cap LifetimeErrors = {}

(* C3: dst = src with src.Size() <= dst.Capacity() and dst, src distinct   *)
(* returns with dst holding exactly src's elements in [0, src.Size()),     *)
(* nothing live beyond, dst's capacity and storage and src unchanged.      *)
C3_CopyAssignInPlace ==
    [][\A v \in Vecs, w \in Vecs :
         ( /\ last'.op = "operator=(const&)" /\ last'.v = v /\ last'.w = w
           /\ v # w /\ ~last'.threw
           /\ PrefixInv(v) /\ PrefixInv(w)
           /\ vec[w].size_ <= vec[v].capacity_ )
         => /\ vec'[v].size_ = vec[w].size_
            /\ Elems(v)' = Elems(w)
            /\ PrefixInv(v)'
            /\ vec'[v].capacity_ = vec[v].capacity_
            /\ vec'[v].buffer_ = vec[v].buffer_
            /\ vec'[w] = vec[w] /\ Slots(w)' = Slots(w)
            /\ last'.ev = {}]_vars

(* C4: for T copy-constructible or nothrow-move-constructible, a Reserve   *)
(* that throws (the allocation or the relocation of any element) leaves    *)
(* Size, Capacity, the storage and every element as before, with the new   *)
(* storage released and nothing leaked.                                    *)
C4_ReserveTransactional ==
    [][(last'.op = "Reserve" /\ last'.threw /\ (traits.copyable \/ traits.nothrow_move))
         => Untouched]_vars

(* the relocation of the second element threw after the first was built *)
C4_Witness ==
    /\ last.op = "Reserve" /\ last.threw /\ last.site = "copy_ctor" /\ last.f = 3
    /\ vec["a"].size_ >= 2

(* C5: when the relocation by copy of the prefix or of the suffix throws   *)
(* in an Emplace that grows a non-empty full vector, the new element and   *)
(* the relocated elements are destroyed once, the new storage is released  *)
(* and the vector is as before the call.                                   *)
C5_EmplaceGrowRelocationThrows ==
    [][(last'.op \in EmplaceOps /\ last'.path = "grow" /\ last'.threw
          /\ last'.site = "copy_ctor")
         => Untouched]_vars

(* the suffix's relocation threw after the new element and the prefix had  *)
(* been built in the new storage                                           *)
C5_Witness ==
    /\ last.op = "Insert" /\ last.path = "grow" /\ last.threw
    /\ last.site = "copy_ctor" /\ last.f = 4 /\ last.n = 1
    /\ vec["a"].size_ = 2

(* C6: when a move-assignment throws in an Emplace before end() with spare *)
(* capacity, Size() is unchanged and exactly the slots [0, Size()) are     *)
(* live.                                                                   *)
C6_EmplaceShiftThrows ==
    [][\A v \in Vecs :
         ( /\ last'.op \in EmplaceOps /\ last'.v = v /\ last'.path = "shift"
           /\ last'.threw /\ last'.site = "move_assign"
           /\ PrefixInv(v) )
         => (vec'[v].size_ = vec[v].size_ /\ PrefixInv(v)')]_vars

(* C7: when an element copy throws in dst = src with src.Size() <=         *)
(* dst.Capacity(), exactly the slots [0, dst.Size()) of dst are live.      *)
C7_CopyAssignInPlaceThrows ==
    [][\A v \in Vecs :
         ( /\ last'.op = "operator=(const&)" /\ last'.v = v /\ last'.path = "in_place"
           /\ last'.threw
           /\ PrefixInv(v) /\ PrefixInv(last'.w) )
         => PrefixInv(v)']_vars

(* C8: dst = src with src.Size() > dst.Capacity(), src satisfying the      *)
(* initialized-prefix invariant: on return dst has src's size and          *)
(* elements and a capacity of at least that size, and src is unchanged;    *)
(* when the allocation or an element copy throws, dst, src and the heap    *)
(* are as before and nothing built for the copy is left.                   *)
C8_CopyAndSwap ==
    [][\A v \in Vecs, w \in Vecs :
         ( /\ last'.op = "operator=(const&)" /\ last'.v = v /\ last'.w = w
           /\ last'.path = "copy_and_swap"
           /\ PrefixInv(w) )
         => IF last'.threw
            THEN Untouched
            ELSE /\ vec'[v].size_ = vec[w].size_
                 /\ vec'[v].capacity_ >= vec[w].size_
                 /\ Elems(v)' = Elems(w)
                 /\ PrefixInv(v)'
                 /\ vec'[w] = vec[w] /\ Slots(w)' = Slots(w)]_vars

(* the copy of the second element threw in the copy-and-swap path *)
C8_Witness ==
    /\ last.op = "operator=(const&)" /\ last.path = "copy_and_swap"
    /\ last.threw /\ last.site = "copy_ctor" /\ last.f = 3
    /\ vec[last.v].size_ >= 1

(* C9: when the constructor of the new element throws in EmplaceBack,      *)
(* PushBack, Emplace or Insert, with or without growth, Size(),            *)
(* Capacity() and the elements are unchanged and the new storage, if any,  *)
(* is released.                                                            *)
C9_NewElementCtorThrows ==
    [][(last'.op \in EmplaceOps /\ last'.threw /\ last'.site = "ctor") => Untouched]_vars

(* the constructor threw in the storage newly allocated for a full vector *)
C9_Witness ==
    /\ last.op \in EmplaceOps /\ last.path = "grow" /\ last.threw /\ last.site = "ctor"
    /\ vec["a"].size_ = 2 /\ vec["a"].capacity_ = 2

(* C10: when an element construction throws in Vector(n) or Vector(src),   *)
(* the elements built so far are destroyed, no destructor runs on a raw    *)
(* slot, the allocation is released, no vector comes to exist and src is   *)
(* as before.                                                              *)
C10_CtorThrows ==
    [][(last'.op \in {"Vector(n)", "Vector(const&)"} /\ last'.threw)
         => (Untouched /\ ~vec'[last'.v].exists)]_vars

(* the copy of src's second element threw after the first was built *)
C10_Witness ==
    /\ last.op = "Vector(const&)" /\ last.threw /\ last.site = "copy_ctor" /\ last.f = 3
    /\ vec[last.w].size_ >= 2

(* the sequence s with e inserted before its element at index p, and with  *)
(* its element at index p removed                                          *)
InsertAt(s, p, e) == SubSeq(s, 1, p) \o <<e>> \o SubSeq(s, p + 1, Len(s))
RemoveAt(s, p) == SubSeq(s, 1, p) \o SubSeq(s, p + 2, Len(s))

(* C11: Insert(begin() + p, x) on a vector of size S with 0 <= p <= S,     *)
(* full or not, returns the iterator begin() + p of the vector as it is    *)
(* after the call, which points at a live element of value x; Size() is    *)
(* S + 1, the elements at [0, p) are as before and the element formerly at *)
(* i >= p is at i + 1.                                                     *)
C11_Insert ==
    [][\A v \in Vecs :
         ( /\ last'.op = "Insert" /\ last'.v = v /\ ~last'.threw /\ ~last'.arg.ref
           /\ PrefixInv(v) )
         => /\ last'.it = It(vec'[v].buffer_, last'.n)
            /\ vec'[v].size_ = vec[v].size_ + 1
            /\ Elems(v)' = InsertAt(Elems(v), last'.n, Elem(last'.arg.val))]_vars

(* an Insert between two elements of a vector with spare capacity returned *)
C11_Witness ==
    /\ last.op = "Insert" /\ ~last.threw /\ ~last.arg.ref /\ last.path = "shift"
    /\ last.n = 1 /\ vec[last.v].size_ = 3
    /\ last.it = It(vec[last.v].buffer_, 1)

(* C12: Erase(begin() + p) on a vector of size S >= 1 with p < S returns   *)
(* begin() + p, leaves Size() = S - 1, the capacity and the storage as     *)
(* before, the elements at [0, p) unchanged and the element formerly at    *)
(* i > p at i - 1; for p = S - 1 the vector and the heap end as PopBack()  *)
(* leaves them.                                                            *)
C12_Erase ==
    [][\A v \in Vecs :
         ( /\ last'.op = "Erase" /\ last'.v = v /\ ~last'.threw
           /\ PrefixInv(v) )
         => /\ last'.it = It(vec'[v].buffer_, last'.n)
            /\ vec'[v].size_ = vec[v].size_ - 1
            /\ vec'[v].capacity_ = vec[v].capacity_
            /\ vec'[v].buffer_ = vec[v].buffer_
            /\ Elems(v)' = RemoveAt(Elems(v), last'.n)
            /\ last'.n = vec[v].size_ - 1
                  => /\ vec' = PopBack(Start(0), v).vec
                     /\ heap' = PopBack(Start(0), v).heap]_vars

(* the first of three elements was erased *)
C12_Witness ==
    /\ last.op = "Erase" /\ ~last.threw /\ last.n = 0
    /\ vec[last.v].size_ = 2 /\ last.it = It(vec[last.v].buffer_, 0)

(* C13: Insert(begin() + p, s[i]) and PushBack(s[i]), the argument being   *)
(* an element of the vector itself, insert the value s[i] had before the   *)
(* call, with growth and without; the other elements keep their values in  *)
(* the shifted order.                                                      *)
C13_InsertOwnElement ==
    [][\A v \in Vecs :
         ( /\ last'.op \in {"Insert", "PushBack"} /\ last'.v = v /\ ~last'.threw
           /\ last'.arg.ref
           /\ PrefixInv(v) )
         => /\ vec'[v].size_ = vec[v].size_ + 1
            /\ Elems(v)' = InsertAt(Elems(v), last'.n, Elems(v)[last'.arg.i + 1])]_vars

(* the second of two elements was inserted at begin(), without growth: the *)
(* shift moved the element the argument refers to                          *)
C13_Witness ==
    /\ last.op = "Insert" /\ ~last.threw /\ last.arg.ref /\ last.path = "shift"
    /\ last.arg.i = 1 /\ last.n = 0 /\ vec[last.v].size_ = 3

(* the capacity the doubling rule gives a full vector of capacity c *)
Doubled(c) == IF c = 0 THEN 1 ELSE 2 * c

(* C14: a PushBack, EmplaceBack, Insert or Emplace that returns leaves the *)
(* capacity at 1 when it was called with Size() = Capacity() = 0, at twice *)
(* the capacity when called with Size() = Capacity() > 0, and unchanged    *)
(* when called with Size() < Capacity().                                   *)
C14_Doubling ==
    [][\A v \in Vecs :
         (last'.op \in EmplaceOps /\ last'.v = v /\ ~last'.threw)
         => vec'[v].capacity_ = IF vec[v].size_ = vec[v].capacity_
                                THEN Doubled(vec[v].capacity_)
                                ELSE vec[v].capacity_]_vars

(* the third PushBack found a full vector of capacity 2 and left capacity 4 *)
C14_Witness ==
    /\ last.op = "PushBack" /\ ~last.threw /\ last.path = "grow"
    /\ vec[last.v].size_ = 3 /\ vec[last.v].capacity_ = 4

CapacityOps ==
    {"Reserve", "Resize", "PushBack", "EmplaceBack", "PopBack", "Insert", "Emplace",
     "Erase", "operator=(const&)"}

(* C15: Reserve, Resize, PushBack, EmplaceBack, PopBack, Insert, Emplace,  *)
(* Erase and copy assignment never leave the vector they are called on     *)
(* with a smaller Capacity() than it had, whether they return or throw.    *)
C15_CapacityNeverDecreases ==
    [][\A v \in Vecs :
         (last'.op \in CapacityOps /\ last'.v = v)
         => vec'[v].capacity_ >= vec[v].capacity_]_vars

(* a copy assignment from a shorter vector returned, the capacity kept *)
C15_Witness ==
    /\ last.op = "operator=(const&)" /\ last.path = "in_place" /\ ~last.threw
    /\ vec[last.v].capacity_ = 2 /\ vec[last.w].size_ = 1

(* C16: dst = std::move(src), dst and src distinct, leaves dst with the    *)
(* storage, the capacity, the size and the elements src had and src empty: *)
(* Size() = 0, Capacity() = 0, null storage.                               *)
C16_MoveAssign ==
    [][\A v \in Vecs, w \in Vecs :
         (last'.op = "operator=(&&)" /\ last'.v = v /\ last'.w = w /\ v # w)
         => /\ vec'[v] = vec[w]
            /\ Slots(v)' = Slots(w)
            /\ vec'[w] = EmptyVector]_vars

(* C17: Vector dst(std::move(src)) gives dst the storage, the capacity,    *)
(* the size and the elements src had, constructs, moves and destroys no    *)
(* element, and leaves src with Size() = 0, Capacity() = 0 and null        *)
(* storage.                                                                *)
C17_MoveCtor ==
    [][\A v \in Vecs, w \in Vecs :
         (last'.op = "Vector(&&)" /\ last'.v = v /\ last'.w = w)
         => /\ vec'[v] = vec[w]
            /\ heap' = heap
            /\ last'.ev = {}
            /\ vec'[w] = EmptyVector]_vars

(* a vector of two elements was moved from *)
C17_Witness ==
    /\ last.op = "Vector(&&)" /\ vec[last.v].size_ = 2
    /\ vec[last.w] = EmptyVector
    /\ Elems(last.v) \in {<<Elem(1), Elem(2)>>, <<Elem(2), Elem(1)>>}

Max(m, n) == IF m >= n THEN m ELSE n
Min(m, n) == IF m <= n THEN m ELSE n

(* C18: Reserve(n) that returns leaves Capacity() >= max(old capacity, n)  *)
(* and Size() and the elements as they were; for n <= Capacity() nothing   *)
(* changes at all (same storage, no allocation, no element touched); for   *)
(* n > Capacity() the elements live on in new storage and the old storage  *)
(* is released with each old element destroyed once and none left in it.   *)
C18_ReserveFrame ==
    [][\A v \in Vecs :
         ( /\ last'.op = "Reserve" /\ last'.v = v /\ ~last'.threw
           /\ PrefixInv(v) )
         => /\ vec'[v].capacity_ >= Max(vec[v].capacity_, last'.n)
            /\ vec'[v].size_ = vec[v].size_
            /\ Elems(v)' = Elems(v)
            /\ PrefixInv(v)'
            /\ last'.ev = {}
            /\ IF last'.n <= vec[v].capacity_
               THEN vec' = vec /\ heap' = heap
               ELSE /\ vec'[v].buffer_ # vec[v].buffer_
                    /\ vec[v].buffer_ # nullptr => heap'[vec[v].buffer_] = FreeBuf]_vars

(* two elements were relocated to storage of capacity 3 *)
C18_Witness ==
    /\ last.op = "Reserve" /\ ~last.threw /\ last.path = "grow" /\ last.n = 3
    /\ vec[last.v].size_ = 2 /\ vec[last.v].capacity_ = 3

(* C19: Resize(n) that returns from a vector of size S leaves Size() = n,  *)
(* the elements at [0, min(S, n)) as they were, value-initialized elements *)
(* at [S, n), the slots of the former elements [n, S) raw, each destroyed  *)
(* once; the capacity and the storage are unchanged when n <= Capacity(),  *)
(* and Resize(S) changes nothing.                                          *)
C19_Resize ==
    [][\A v \in Vecs :
         ( /\ last'.op = "Resize" /\ last'.v = v /\ ~last'.threw
           /\ PrefixInv(v) )
         => /\ vec'[v].size_ = last'.n
            /\ \A i \in 1..Min(vec[v].size_, last'.n) : Elems(v)'[i] = Elems(v)[i]
            /\ \A i \in (vec[v].size_ + 1)..last'.n : Elems(v)'[i] = Elem(ValueInit)
            /\ PrefixInv(v)'
            /\ last'.ev = {}
            /\ last'.n <= vec[v].capacity_
                  => /\ vec'[v].capacity_ = vec[v].capacity_
                     /\ vec'[v].buffer_ = vec[v].buffer_
            /\ last'.n = vec[v].size_ => (vec' = vec /\ heap' = heap)]_vars

(* a vector of one element was resized to two, beyond its capacity *)
C19_Witness ==
    /\ last.op = "Resize" /\ ~last.threw /\ last.path = "grow" /\ last.n = 2
    /\ vec[last.v].size_ = 2
    /\ Elems(last.v)[1].val \in Values /\ Elems(last.v)[2] = Elem(ValueInit)

(* C20: when the value-initialization of a new element throws in           *)
(* Resize(n), n > Size(), the new elements built so far are destroyed and  *)
(* Size(), Capacity() and the elements are as before the call.             *)
C20_ResizeThrows ==
    [][\A v \in Vecs :
         ( /\ last'.op = "Resize" /\ last'.v = v /\ last'.threw
           /\ last'.site = "value_ctor"
           /\ PrefixInv(v) )
         => /\ vec'[v].size_ = vec[v].size_
            /\ vec'[v].capacity_ = vec[v].capacity_
            /\ Elems(v)' = Elems(v)
            /\ PrefixInv(v)'
            /\ last'.ev = {}]_vars
====
